---------------------------- MODULE Spec2Model ----------------------------
(***************************************************************************)
(* A model of the weighted-graph programs of the repository:               *)
(*   prac3.py  a_star, _get_neighbors_with_cost, reconstruct_path          *)
(*   prac6.py  kruskal_mst (path-halving find), prim_mst, prim_full,       *)
(*             build_adj_from_edges                                        *)
(*   prac8.py  UnionFind, kruskal_mst (recursive find)                     *)
(*   prac4.py  solve_n_queens                                              *)
(*   prac1.py  dfs_recursive, dfs_full, build_undirected_graph             *)
(*   prac2.py  bfs_full                                                    *)
(* Every program is a loop; one action of the model is one iteration of    *)
(* that loop (or one call/return of a recursive function).                 *)
(*                                                                         *)
(* Numbers: the programs add Python floats; the model draws integer        *)
(* weights, for which float(w) and the float sums are exact.               *)
(***************************************************************************)
EXTENDS Integers, Sequences, FiniteSets, TLC

VARIABLES
    \* ---- prac3.a_star ----
    wgt,        \* the weighted graph the caller means: unordered pair -> weight, Absent for no edge
    kind,       \* how the caller writes node identifiers: "str" or "coord"
    graph,      \* the dict passed to a_star: node -> list of neighbour entries
    start, goal,
    hval,       \* the heuristic: node index -> estimate (the goal is fixed per call)
    open_set, came_from, g_score, f_score, closed, push_count,
    expanded,   \* the nodes whose neighbours the loop has relaxed, in order
    apc,        \* position in a_star: "loop" or "done"
    path,       \* the value a_star returned
    \* ---- kruskal_mst (prac6, prac8) ----
    edges, nodes,   \* the arguments: list of <<u, v, w>>, list of nodes
    impl,           \* which kruskal_mst runs: "prac6" or "prac8"
    sorted_edges, parent, rank, mst, total,
    ki,             \* the index in sorted_edges of the edge the for loop takes next
    kpc,            \* position in kruskal_mst: "loop" or "done"
    \* ---- prim_mst, prim_full (prac6) ----
    adj,            \* the adjacency dict: key -> list of <<nbr, w>>
    adj_keys,       \* the keys of adj in the dict's (insertion) order
    mode,           \* the call made: "none", "single" (prim_mst) or "full" (prim_full)
    visited, heap,
    pmst, ptotal,   \* mst and total of the running prim_mst call
    all_mst, all_total,
    fi,             \* the index in adj_keys of the key prim_full's for loop takes next
    calls,          \* the start node of every prim_mst call that got past line 95
    ppc,            \* position: "idle", "for" (prim_full's loop), "while" (prim_mst's loop), "done"
    \* ---- solve_n_queens (prac4) ----
    n, find_all, max_solutions,     \* the arguments
    solutions, cols, diag1, diag2,
    board,          \* the list board; board[r + 1] is Python's board[r]
    stack,          \* the frames of backtrack, innermost last: row, c, and
                    \* at = "test" (line 46 is next) or "ret" (line 55 returned)
    qpc,            \* position in solve_n_queens: "run" or "done"
    \* ---- dfs_full (prac1), bfs_full (prac2) ----
    tgraph,         \* the adjacency dict: keys in the dict's order, lists: key -> neighbours
    talgo,          \* the call made: "dfs" (dfs_full) or "bfs" (bfs_full)
    tvisited, torder,
    ti,             \* the index in tgraph.keys of the key the for loop takes next
    tstack,         \* the frames of dfs_recursive, innermost last: start and the
                    \* index j of the neighbour its for loop takes next
    frontier,       \* the argument of the running _bfs_level call
    tpc,            \* position: "for", "rec" (in dfs_recursive), "level" (in _bfs_level), "done"
    \* ---- the disjoint sets of prac6.kruskal_mst and prac8.UnionFind, called directly ----
    unodes,         \* the registered nodes (the list nodes)
    uimpl,          \* "prac6" or "prac8"
    uparent, urank,
    ulast,          \* the last call: op, x, y, the tables before it, its result,
                    \* and every find it ran (argument, parent table before and
                    \* after, value returned)
    upart,          \* node -> least node it has been merged with by union calls
    \* ---- a caller that runs both kruskal_mst on one input ----
    first           \* <<(mst, total)>> once prac6.kruskal_mst has returned it, <<>> before

avars == <<wgt, kind, graph, start, goal, hval, open_set, came_from,
           g_score, f_score, closed, push_count, expanded, apc, path>>

kvars == <<edges, nodes, impl, sorted_edges, parent, rank, mst, total, ki, kpc>>

pvars == <<adj, adj_keys, mode, visited, heap, pmst, ptotal, all_mst, all_total,
           fi, calls, ppc>>

qvars == <<n, find_all, max_solutions, solutions, cols, diag1, diag2, board, stack, qpc>>

tvars == <<tgraph, talgo, tvisited, torder, ti, tstack, frontier, tpc>>

uvars == <<unodes, uimpl, uparent, urank, ulast, upart>>

vars == <<avars, kvars, pvars, qvars, tvars, uvars, first>>

\* What each program leaves alone: the variables of the other programs.
notAStar == <<kvars, pvars, qvars, tvars, uvars, first>>
notKruskal == <<avars, pvars, qvars, tvars, uvars, first>>
notPrim == <<avars, kvars, qvars, tvars, uvars, first>>
notQueens == <<avars, kvars, pvars, tvars, uvars, first>>
notTraversal == <<avars, kvars, pvars, qvars, uvars, first>>
notUnionFind == <<avars, kvars, pvars, qvars, tvars, first>>

(***************************************************************************)
(* Bounds of the model.                                                    *)
(***************************************************************************)
MaxWeight == 1
MaxH == 1
MaxEdgeWeight == 2
MaxN == 5
MaxSolutionsArg == 2
MaxTEdges == 2
MaxListEdges == 2

\* The node indices of the drawn graphs.
Nodes == {1, 2, 3, 4}

\* The marker for "no edge between these two nodes".
Absent == 0 - 1

(***************************************************************************)
(* Python values.  isinstance() is modelled by the tag t; every value has  *)
(* the same fields so that any two values can be compared.                 *)
(***************************************************************************)
PyStr(x) == [t |-> "str", s |-> x, n |-> 0, a |-> <<>>]
PyInt(x) == [t |-> "int", s |-> "", n |-> x, a |-> <<>>]
PyTuple(xs) == [t |-> "tuple", s |-> "", n |-> 0, a |-> xs]

Labels == <<"A", "B", "C", "D", "E">>

\* The kinds of node identifier of the drawn graphs: string labels "A", "B", ...
\* and coordinate tuples (0, i).  (An integer index is a primitive to line 32,
\* as a string is.)
Kinds == {"str", "coord"}

\* Node i written as the caller's kind of identifier.
NodeVal(k, i) ==
    CASE k = "str" -> PyStr(Labels[i])
      [] k = "int" -> PyInt(i)
      [] OTHER -> PyTuple(<<PyInt(0), PyInt(i)>>)

\* The index of a node value, 0 for a value that is no node of the graph.
NodeIdx(k, v) ==
    IF \E i \in Nodes : NodeVal(k, i) = v
    THEN CHOOSE i \in Nodes : NodeVal(k, i) = v
    ELSE 0

Pair(u, v) == IF u < v THEN <<u, v>> ELSE <<v, u>>
Pairs == {<<u, v>> \in Nodes \X Nodes : u < v}

W(g, u, v) == IF u = v THEN Absent ELSE g[Pair(u, v)]

RECURSIVE SeqOfSet(_)
\* The elements of a set of integers in ascending order.
SeqOfSet(S) ==
    IF S = {} THEN <<>>
    ELSE LET m == CHOOSE x \in S : \A y \in S : x <= y
         IN <<m>> \o SeqOfSet(S \ {m})

\* One neighbour entry as the caller writes it: a bare node for an edge of
\* weight 1, (neighbor, cost) for any other.
Entry(k, v, w) ==
    IF w = 1 THEN NodeVal(k, v)
    ELSE PyTuple(<<NodeVal(k, v), PyInt(w)>>)

\* The adjacency list of node u, neighbours in ascending order.
AdjList(g, k, u) ==
    LET nb == SeqOfSet({v \in Nodes : W(g, u, v) # Absent})
    IN [j \in 1..Len(nb) |-> Entry(k, nb[j], W(g, u, nb[j]))]

\* The dict the caller passes: every node is a key.
WrittenGraph(g, k) ==
    [key \in {NodeVal(k, u) : u \in Nodes} |-> AdjList(g, k, NodeIdx(k, key))]

(***************************************************************************)
(* prac3._get_neighbors_with_cost                                          *)
(***************************************************************************)
IsPrimitive(x) == x.t \in {"int", "float", "str", "bool"}
IsNumber(x) == x.t \in {"int", "float"}

\* The condition of line 32.
IsWeightedEntry(nbr) ==
    /\ nbr.t \in {"tuple", "list"}
    /\ Len(nbr.a) = 2
    /\ IsNumber(nbr.a[2])
    /\ ~IsPrimitive(nbr.a[1])

Normalize(nbr) ==
    IF IsWeightedEntry(nbr)
    THEN [node |-> nbr.a[1], cost |-> nbr.a[2].n]
    ELSE [node |-> nbr, cost |-> 1]

GetNeighborsWithCost(gr, node) ==
    LET lst == IF node \in DOMAIN gr THEN gr[node] ELSE <<>>
    IN [j \in 1..Len(lst) |-> Normalize(lst[j])]


(***************************************************************************)
(* Python dicts: functions whose domain is the set of keys.                *)
(***************************************************************************)
EmptyDict == [x \in {} |-> 0]
DictSet(d, k, v) == [x \in (DOMAIN d) \cup {k} |-> IF x = k THEN v ELSE d[x]]

\* float('inf'): larger than the weight of any path of the drawn graphs.
Inf == (MaxWeight + 1) * (Cardinality(Nodes) + 1)
GGet(g, x) == IF x \in DOMAIN g THEN g[x] ELSE Inf
AddCost(a, c) == IF a = Inf THEN Inf ELSE a + c

\* heuristic(node, goal): the table hval on the nodes of the graph, 0 on any
\* other value.
Heuristic(k, h, v) == IF NodeIdx(k, v) = 0 THEN 0 ELSE h[NodeIdx(k, v)]

(***************************************************************************)
(* The heap of prac3: entries <<f, count, node>>.  count is unique, so     *)
(* heappop returns the entry least by (f, count).                          *)
(***************************************************************************)
HeapLess(a, b) == a[1] < b[1] \/ (a[1] = b[1] /\ a[2] < b[2])
HeapMin(h) == CHOOSE e \in h : \A o \in h : o = e \/ HeapLess(e, o)

(***************************************************************************)
(* prac3.reconstruct_path.  The while loop runs while current is a key of  *)
(* came_from; fuel bounds the unrolling, and a loop that is still running  *)
(* when the fuel is spent is reported as the path <<"diverges">>.          *)
(***************************************************************************)
RECURSIVE WalkBack(_, _, _)
WalkBack(cf, current, fuel) ==
    IF current \notin DOMAIN cf THEN <<current>>
    ELSE IF fuel = 0 THEN <<PyStr("diverges")>>
    ELSE WalkBack(cf, cf[current], fuel - 1) \o <<current>>

\* reconstruct_path without line 46 (path.reverse()).
ReconstructPathNoReverse(cf, current) ==
    LET p == WalkBack(cf, current, Cardinality(DOMAIN cf) + 1)
    IN [j \in 1..Len(p) |-> p[Len(p) + 1 - j]]

ReconstructPath(cf, current) == WalkBack(cf, current, Cardinality(DOMAIN cf) + 1)

(***************************************************************************)
(* prac3.a_star, lines 73-85: the for loop over the neighbours of current. *)
(* st holds came_from, g_score, f_score, open_set and push_count.          *)
(***************************************************************************)
\* line 79 with <= for <: a path that is no better is recorded and pushed too.
TentativeNotWorse(tentative_g, known) == tentative_g <= known

TentativeBetter(tentative_g, known) == tentative_g < known

RelaxOne(st, cl, current, nb, k, h) ==
    LET tentative_g == AddCost(GGet(st.g, current), nb.cost)
        f == tentative_g + Heuristic(k, h, nb.node)
    IN IF nb.node \in cl THEN st
       ELSE IF TentativeBetter(tentative_g, GGet(st.g, nb.node))
       THEN [cf |-> DictSet(st.cf, nb.node, current),
             g |-> DictSet(st.g, nb.node, tentative_g),
             f |-> DictSet(st.f, nb.node, f),
             os |-> st.os \cup {<<f, st.pc, nb.node>>},
             pc |-> st.pc + 1]
       ELSE st

RECURSIVE RelaxAll(_, _, _, _, _, _, _)
RelaxAll(st, cl, current, nbrs, j, k, h) ==
    IF j > Len(nbrs) THEN st
    ELSE RelaxAll(RelaxOne(st, cl, current, nbrs[j], k, h), cl, current, nbrs, j + 1, k, h)

(***************************************************************************)
(* The inputs of a_star.                                                   *)
(***************************************************************************)
Weights == 0..MaxWeight
Graphs == [Pairs -> Weights \cup {Absent}]

RECURSIVE DistK(_, _, _, _)
\* The least weight of a walk from u to v with at most k edges (Inf: none).
DistK(g, u, v, k) ==
    IF u = v THEN 0
    ELSE IF k = 0 THEN Inf
    ELSE LET via == {AddCost(DistK(g, x, v, k - 1), W(g, u, x)) :
                        x \in {y \in Nodes : W(g, u, y) # Absent}}
         IN IF via = {} THEN Inf
            ELSE CHOOSE m \in via : \A o \in via : m <= o

\* The least weight of a path from u to v in the graph the caller means.
Dist(g, u, v) == DistK(g, u, v, Cardinality(Nodes) - 1)

Admissible(g, gl, h) == \A u \in Nodes : h[u] <= Dist(g, u, gl)
Consistent(g, gl, h) ==
    /\ h[gl] = 0
    /\ \A u, v \in Nodes : W(g, u, v) # Absent => h[u] <= W(g, u, v) + h[v]

\* The caller's graph, nodes, heuristic and way of writing them.  The start is
\* node 1: the drawn graphs are closed under renaming the nodes.
AStarStart ==
    /\ wgt \in Graphs
    /\ \E t \in Nodes :
          /\ hval \in [Nodes -> 0..MaxH]
          /\ Consistent(wgt, t, hval)
          /\ Admissible(wgt, t, hval)
          /\ kind \in Kinds
          /\ start = NodeVal(kind, 1)
          /\ goal = NodeVal(kind, t)
    /\ graph = WrittenGraph(wgt, kind)
    /\ open_set = {<<Heuristic(kind, hval, start), 0, start>>}
    /\ came_from = EmptyDict
    /\ g_score = DictSet(EmptyDict, start, 0)
    /\ f_score = DictSet(EmptyDict, start, Heuristic(kind, hval, start))
    /\ closed = {}
    /\ push_count = 1
    /\ expanded = <<>>
    /\ apc = "loop"
    /\ path = <<>>

\* The same call with any heuristic at all, admissible or not.
AStarStartAny ==
    /\ wgt \in Graphs
    /\ hval \in [Nodes -> 0..MaxH]
    /\ kind \in Kinds
    /\ start = NodeVal(kind, 1)
    /\ goal \in {NodeVal(kind, t) : t \in Nodes}
    /\ graph = WrittenGraph(wgt, kind)
    /\ open_set = {<<Heuristic(kind, hval, start), 0, start>>}
    /\ came_from = EmptyDict
    /\ g_score = DictSet(EmptyDict, start, 0)
    /\ f_score = DictSet(EmptyDict, start, Heuristic(kind, hval, start))
    /\ closed = {}
    /\ push_count = 1
    /\ expanded = <<>>
    /\ apc = "loop"
    /\ path = <<>>

\* Lines 65-69: the goal is popped.
AStarGoal ==
    /\ apc = "loop"
    /\ open_set # {}
    /\ HeapMin(open_set)[3] = goal
    /\ path' = ReconstructPath(came_from, goal)
    /\ open_set' = open_set \ {HeapMin(open_set)}
    /\ apc' = "done"
    /\ UNCHANGED <<wgt, kind, graph, start, goal, hval, came_from,
                   g_score, f_score, closed, push_count, expanded>>
    /\ UNCHANGED notAStar

\* Lines 65-85: another node is popped, closed and its neighbours relaxed.
AStarExpand ==
    /\ apc = "loop"
    /\ open_set # {}
    /\ HeapMin(open_set)[3] # goal
    /\ LET top == HeapMin(open_set)
           current == top[3]
           cl == closed \cup {current}
           st == RelaxAll([cf |-> came_from, g |-> g_score, f |-> f_score,
                           os |-> open_set \ {top}, pc |-> push_count],
                          cl, current, GetNeighborsWithCost(graph, current), 1,
                          kind, hval)
       IN /\ closed' = cl
          /\ came_from' = st.cf
          /\ g_score' = st.g
          /\ f_score' = st.f
          /\ open_set' = st.os
          /\ push_count' = st.pc
          /\ expanded' = Append(expanded, current)
    /\ UNCHANGED <<wgt, kind, graph, start, goal, hval, apc, path>>
    /\ UNCHANGED notAStar

\* Lines 87-88: the frontier is exhausted.
AStarNoPath ==
    /\ apc = "loop"
    /\ open_set = {}
    /\ path' = <<>>
    /\ apc' = "done"
    /\ UNCHANGED <<wgt, kind, graph, start, goal, hval, open_set, came_from,
                   g_score, f_score, closed, push_count, expanded>>
    /\ UNCHANGED notAStar



(***************************************************************************)
(* What the claims about a_star speak of.                                  *)
(***************************************************************************)
StartIdx == NodeIdx(kind, start)
GoalIdx == NodeIdx(kind, goal)
Reachable == Dist(wgt, StartIdx, GoalIdx) < Inf

\* p is a sequence of nodes of the graph, each joined to the next by an edge.
IsGraphPath(p) ==
    /\ \A j \in 1..Len(p) : NodeIdx(kind, p[j]) # 0
    /\ \A j \in 1..(Len(p) - 1) :
          W(wgt, NodeIdx(kind, p[j]), NodeIdx(kind, p[j + 1])) # Absent

RECURSIVE PathWeight(_)
PathWeight(p) ==
    IF Len(p) < 2 THEN 0
    ELSE W(wgt, NodeIdx(kind, p[1]), NodeIdx(kind, p[2])) + PathWeight(Tail(p))

\* The neighbours of node u as the caller wrote them: (neighbor, cost) pairs.
IntendedNeighbors(u) ==
    LET nb == SeqOfSet({v \in Nodes : W(wgt, u, v) # Absent})
    IN [j \in 1..Len(nb) |-> [node |-> NodeVal(kind, nb[j]), cost |-> W(wgt, u, nb[j])]]

\* C1 (as claimed): with an admissible, consistent heuristic and the goal
\* reachable, a_star returns a start-goal path of minimum total weight.
C1_OptimalPath ==
    (apc = "done" /\ Reachable) =>
        /\ path # <<>>
        /\ path[1] = start /\ path[Len(path)] = goal
        /\ IsGraphPath(path)
        /\ PathWeight(path) = Dist(wgt, StartIdx, GoalIdx)

\* The same statement on the graphs whose entries line 32 reads as written
\* (coordinate-tuple nodes): there it holds.
OptimalPathOnCoordGraphs == kind = "coord" => C1_OptimalPath

\* C2 (as claimed): a_star returns [] exactly when the goal is unreachable, and
\* [start] when start = goal.
C2_EmptyIffUnreachable ==
    apc = "done" =>
        /\ (path = <<>>) <=> ~Reachable
        /\ start = goal => path = <<start>>

EmptyIffUnreachableOnCoordGraphs == kind = "coord" => C2_EmptyIffUnreachable

\* C3: a non-empty returned path starts at start, ends at goal, and each
\* consecutive pair of its nodes is joined by an edge of the input graph.
C3_PathIsWalkInGraph ==
    (apc = "done" /\ path # <<>>) =>
        /\ path[1] = start
        /\ path[Len(path)] = goal
        /\ IsGraphPath(path)

\* C3 witness: a returned path of at least two edges.
C3_Witness == apc = "done" /\ Len(path) >= 3 /\ path[1] = start /\ IsGraphPath(path)

\* C9 (as claimed): the neighbours a_star relaxes for an expanded node are the
\* entries as written: (neighbor, cost) with its cost, a bare node with cost 1.
C9_EntriesTraversedAsWritten ==
    \A j \in 1..Len(expanded) :
        NodeIdx(kind, expanded[j]) # 0 =>
            GetNeighborsWithCost(graph, expanded[j])
                = IntendedNeighbors(NodeIdx(kind, expanded[j]))

EntriesTraversedAsWrittenOnCoordGraphs == kind = "coord" => C9_EntriesTraversedAsWritten

\* came_from leads from v back to a node that is not one of its keys.
WalksBack(v) ==
    WalkBack(came_from, v, Cardinality(DOMAIN came_from) + 1)[1] # PyStr("diverges")

\* Every value a_star can push: start and whatever it reads as a neighbour.
Pushable ==
    {start} \cup UNION {{GetNeighborsWithCost(graph, k)[j].node :
                            j \in 1..Len(GetNeighborsWithCost(graph, k))} : k \in DOMAIN graph}

\* The sum of g_score.get(v, inf) over the values v that have a g_score in
\* g, and of inf over the cnt values that have none.
RECURSIVE SumKnown(_, _)
SumKnown(g, S) ==
    IF S = {} THEN 0
    ELSE LET v == CHOOSE x \in S : TRUE
         IN g[v] + SumKnown(g, S \ {v})

SumG(g, cnt) == SumKnown(g, DOMAIN g) + Inf * (cnt - Cardinality(DOMAIN g))

\* What is left to do: the entries still to pop, and twice the room the
\* g_scores have left to fall (a pop removes one entry, a push adds one and
\* lowers a g_score by at least one unit of weight).
Potential(os, g) == Cardinality(os) + 2 * SumG(g, Cardinality(Pushable))

\* C18: with any heuristic a_star terminates: every iteration of the loop
\* that does not return strictly lowers Potential, a natural number; every
\* push strictly lowers the g_score of the node pushed and no g_score
\* changes once its node is closed; came_from never holds start and never
\* forms a cycle, so reconstruct_path terminates.
C18_AStarTerminates ==
    /\ [][/\ apc' = "loop" => Potential(open_set', g_score') < Potential(open_set, g_score)
          /\ \A e \in open_set' \ open_set :
               g_score'[e[3]] < GGet(g_score, e[3])
          /\ \A v \in closed \cap DOMAIN g_score :
               v \in DOMAIN g_score' /\ g_score'[v] = g_score[v]]_vars
    /\ [](/\ Potential(open_set, g_score) >= 0
          /\ DOMAIN g_score \subseteq Pushable
          /\ start \notin DOMAIN came_from
          /\ \A v \in DOMAIN came_from : WalksBack(v))

\* C18 witness: a_star has returned a path under a heuristic that is not
\* admissible, after expanding a node a second time.
C18_Witness ==
    /\ apc = "done" /\ path # <<>>
    /\ ~Admissible(wgt, GoalIdx, hval)
    /\ \E i, j \in DOMAIN expanded : i # j /\ expanded[i] = expanded[j]

\* C15: an entry popped for a node that is already closed is discarded
\* without examining its neighbours, so during one search every node is
\* expanded at most once.
C15_EachNodeExpandedOnce ==
    \A i, j \in DOMAIN expanded : i # j => expanded[i] # expanded[j]


(***************************************************************************)
(* Disjoint sets.  A find returns the root and the parent table it leaves. *)
(***************************************************************************)

RECURSIVE Find6(_, _)
\* prac6.kruskal_mst.find, lines 37-41: path halving.
Find6(p, x) ==
    IF p[x] = x THEN [root |-> x, parent |-> p]
    ELSE LET p2 == [p EXCEPT ![x] = p[p[x]]]
         IN Find6(p2, p2[x])

\* find without line 29's assignment: the representative is returned and no
\* parent is rewritten.
Find8NoCompression(p, x) == Find6(p, x) @@ [parent |-> p]

RECURSIVE Find8(_, _)
\* prac8.UnionFind.find, lines 26-30: recursive path compression.
Find8(p, x) ==
    IF p[x] # x
    THEN LET r == Find8(p, p[x])
             p2 == [r.parent EXCEPT ![x] = r.root]
         IN [root |-> p2[x], parent |-> p2]
    ELSE [root |-> p[x], parent |-> p]

\* A union that merges without comparing the two roots (lines 46-47 dropped).
Union6NoRootTest(p, rk, x, y) ==
    LET fx == Find6(p, x)
        fy == Find6(fx.parent, y)
    IN [merged |-> TRUE, parent |-> [fy.parent EXCEPT ![fy.root] = fx.root], rank |-> rk]

\* union without lines 51-52: no rank is ever incremented.
Union6NoRankIncrement(p, rk, x, y) ==
    LET fx == Find6(p, x)
        fy == Find6(fx.parent, y)
        rx == fx.root
        ry == fy.root
    IN IF rx = ry THEN [merged |-> FALSE, parent |-> fy.parent, rank |-> rk]
       ELSE IF rk[rx] < rk[ry]
       THEN [merged |-> TRUE, parent |-> [fy.parent EXCEPT ![rx] = ry], rank |-> rk]
       ELSE [merged |-> TRUE, parent |-> [fy.parent EXCEPT ![ry] = rx], rank |-> rk]

\* prac6.kruskal_mst.union, lines 43-53.
Union6(p, rk, x, y) ==
    LET fx == Find6(p, x)
        fy == Find6(fx.parent, y)
        rx == fx.root
        ry == fy.root
    IN IF rx = ry THEN [merged |-> FALSE, parent |-> fy.parent, rank |-> rk]
       ELSE IF rk[rx] < rk[ry]
       THEN [merged |-> TRUE, parent |-> [fy.parent EXCEPT ![rx] = ry], rank |-> rk]
       ELSE [merged |-> TRUE, parent |-> [fy.parent EXCEPT ![ry] = rx],
             rank |-> IF rk[rx] = rk[ry] THEN [rk EXCEPT ![rx] = rk[rx] + 1] ELSE rk]

\* union with the comparison of line 39 turned round: the root of higher rank
\* goes under the root of lower rank.
Union8HigherUnderLower(p, rk, x, y) ==
    LET fx == Find8(p, x)
        fy == Find8(fx.parent, y)
        px == fx.root
        py == fy.root
    IN IF px = py THEN [merged |-> FALSE, parent |-> fy.parent, rank |-> rk]
       ELSE IF rk[px] > rk[py]
       THEN [merged |-> TRUE, parent |-> [fy.parent EXCEPT ![px] = py], rank |-> rk]
       ELSE IF rk[px] < rk[py]
       THEN [merged |-> TRUE, parent |-> [fy.parent EXCEPT ![py] = px], rank |-> rk]
       ELSE [merged |-> TRUE, parent |-> [fy.parent EXCEPT ![py] = px],
             rank |-> [rk EXCEPT ![px] = rk[px] + 1]]

\* prac8.UnionFind.union, lines 32-46.
Union8(p, rk, x, y) ==
    LET fx == Find8(p, x)
        fy == Find8(fx.parent, y)
        px == fx.root
        py == fy.root
    IN IF px = py THEN [merged |-> FALSE, parent |-> fy.parent, rank |-> rk]
       ELSE IF rk[px] < rk[py]
       THEN [merged |-> TRUE, parent |-> [fy.parent EXCEPT ![px] = py], rank |-> rk]
       ELSE IF rk[px] > rk[py]
       THEN [merged |-> TRUE, parent |-> [fy.parent EXCEPT ![py] = px], rank |-> rk]
       ELSE [merged |-> TRUE, parent |-> [fy.parent EXCEPT ![py] = px],
             rank |-> [rk EXCEPT ![px] = rk[px] + 1]]

\* find(x) of the implementation im.
Find(im, p, x) == IF im = "prac6" THEN Find6(p, x) ELSE Find8(p, x)

Union(im, p, rk, x, y) == IF im = "prac6" THEN Union6(p, rk, x, y) ELSE Union8(p, rk, x, y)

(***************************************************************************)
(* sorted(edges, key=weight): Python's sort is stable.  An edge is         *)
(* <<u, v, w>>.                                                            *)
(***************************************************************************)
RECURSIVE InsertByWeightDesc(_, _)
\* The order of sorted(edges, key=weight, reverse=True).
InsertByWeightDesc(s, e) ==
    IF s = <<>> THEN <<e>>
    ELSE IF s[Len(s)][3] >= e[3] THEN Append(s, e)
    ELSE Append(InsertByWeightDesc(SubSeq(s, 1, Len(s) - 1), e), s[Len(s)])

RECURSIVE InsertBeforeTies(_, _)
\* An unstable sort: e goes before the edges of s of the same weight.
InsertBeforeTies(s, e) ==
    IF s = <<>> THEN <<e>>
    ELSE IF s[Len(s)][3] < e[3] THEN Append(s, e)
    ELSE Append(InsertBeforeTies(SubSeq(s, 1, Len(s) - 1), e), s[Len(s)])

RECURSIVE InsertByWeight(_, _)
\* e goes after every edge of s whose weight is not larger.
InsertByWeight(s, e) ==
    IF s = <<>> THEN <<e>>
    ELSE IF s[Len(s)][3] <= e[3] THEN Append(s, e)
    ELSE Append(InsertByWeight(SubSeq(s, 1, Len(s) - 1), e), s[Len(s)])

\* kruskal_mst without the sort of line 56.
NotSorted(es) == es

RECURSIVE SortedByWeight(_)
SortedByWeight(es) ==
    IF es = <<>> THEN <<>>
    ELSE InsertByWeight(SortedByWeight(SubSeq(es, 1, Len(es) - 1)), es[Len(es)])

SetOfSeq(q) == {q[j] : j \in 1..Len(q)}


(***************************************************************************)
(* kruskal_mst.  One action is one iteration of the for loop of            *)
(* prac6 lines 61-66 or prac8 lines 86-96.                                 *)
(***************************************************************************)
KruskalStart(es, ns, im) ==
    /\ edges = es
    /\ nodes = ns
    /\ impl = im
    /\ sorted_edges = SortedByWeight(es)
    /\ parent = [x \in SetOfSeq(ns) |-> x]
    /\ rank = [x \in SetOfSeq(ns) |-> 0]
    /\ mst = <<>>
    /\ total = 0
    /\ ki = 1
    /\ kpc = "loop"

\* prac6: union, append, then break once the tree is complete.
Kruskal6Edge ==
    /\ kpc = "loop" /\ impl = "prac6"
    /\ ki <= Len(sorted_edges)
    /\ LET e == sorted_edges[ki]
           r == Union("prac6", parent, rank, e[1], e[2])
           m == IF r.merged THEN Append(mst, e) ELSE mst
       IN /\ parent' = r.parent
          /\ rank' = r.rank
          /\ mst' = m
          /\ total' = IF r.merged THEN total + e[3] ELSE total
          /\ ki' = ki + 1
          /\ kpc' = IF r.merged /\ Len(m) = Len(nodes) - 1 THEN "done" ELSE "loop"
    /\ UNCHANGED <<edges, nodes, impl, sorted_edges>>
    /\ UNCHANGED notKruskal

\* prac8's loop with the test of line 87 off by one: it stops one edge short.
Kruskal8EdgeEarlyBreak ==
    /\ kpc = "loop" /\ impl = "prac8"
    /\ ki <= Len(sorted_edges)
    /\ IF Len(mst) = Len(nodes) - 2
       THEN /\ kpc' = "done"
            /\ UNCHANGED <<parent, rank, mst, total, ki>>
       ELSE LET e == sorted_edges[ki]
                r == Union("prac8", parent, rank, e[1], e[2])
            IN /\ parent' = r.parent
               /\ rank' = r.rank
               /\ mst' = IF r.merged THEN Append(mst, e) ELSE mst
               /\ total' = IF r.merged THEN total + e[3] ELSE total
               /\ ki' = ki + 1
               /\ kpc' = "loop"
    /\ UNCHANGED <<edges, nodes, impl, sorted_edges>>
    /\ UNCHANGED notKruskal

\* prac8: break first if the tree is complete, else union and append.
Kruskal8Edge ==
    /\ kpc = "loop" /\ impl = "prac8"
    /\ ki <= Len(sorted_edges)
    /\ IF Len(mst) = Len(nodes) - 1
       THEN /\ kpc' = "done"
            /\ UNCHANGED <<parent, rank, mst, total, ki>>
       ELSE LET e == sorted_edges[ki]
                r == Union("prac8", parent, rank, e[1], e[2])
            IN /\ parent' = r.parent
               /\ rank' = r.rank
               /\ mst' = IF r.merged THEN Append(mst, e) ELSE mst
               /\ total' = IF r.merged THEN total + e[3] ELSE total
               /\ ki' = ki + 1
               /\ kpc' = "loop"
    /\ UNCHANGED <<edges, nodes, impl, sorted_edges>>
    /\ UNCHANGED notKruskal

\* The for loop has taken every edge: return mst, total.
KruskalReturn ==
    /\ kpc = "loop"
    /\ ki > Len(sorted_edges)
    /\ kpc' = "done"
    /\ UNCHANGED <<edges, nodes, impl, sorted_edges, parent, rank, mst, total, ki>>
    /\ UNCHANGED notKruskal

\* prac6.kruskal_mst has returned; the caller keeps its result and calls
\* prac8.kruskal_mst(edges, nodes), which runs lines 72-80.
KruskalAgain ==
    /\ kpc = "done" /\ impl = "prac6" /\ first = <<>>
    /\ first' = <<[mst |-> mst, total |-> total]>>
    /\ impl' = "prac8"
    /\ sorted_edges' = SortedByWeight(edges)
    /\ parent' = [x \in SetOfSeq(nodes) |-> x]
    /\ rank' = [x \in SetOfSeq(nodes) |-> 0]
    /\ mst' = <<>>
    /\ total' = 0
    /\ ki' = 1
    /\ kpc' = "loop"
    /\ UNCHANGED <<edges, nodes>>
    /\ UNCHANGED <<avars, pvars, qvars, tvars, uvars>>

(***************************************************************************)
(* prac6.build_adj_from_edges, lines 137-143.                              *)
(***************************************************************************)
AdjAppend(d, k, x) ==
    [keys |-> IF k \in DOMAIN d.lists THEN d.keys ELSE Append(d.keys, k),
     lists |-> DictSet(d.lists, k, IF k \in DOMAIN d.lists THEN Append(d.lists[k], x) ELSE <<x>>)]

RECURSIVE BuildAdjFromEdges(_)
BuildAdjFromEdges(es) ==
    IF es = <<>> THEN [keys |-> <<>>, lists |-> EmptyDict]
    ELSE LET d == BuildAdjFromEdges(SubSeq(es, 1, Len(es) - 1))
             e == es[Len(es)]
         IN AdjAppend(AdjAppend(d, e[1], <<e[2], e[3]>>), e[2], <<e[1], e[3]>>)

RECURSIVE WithKeys(_, _)
\* d with every node of ns that is no key yet added as a key with no neighbours.
WithKeys(d, ns) ==
    IF ns = <<>> THEN d
    ELSE LET k == Head(ns)
         IN WithKeys(IF k \in DOMAIN d.lists THEN d
                     ELSE [keys |-> Append(d.keys, k), lists |-> DictSet(d.lists, k, <<>>)],
                     Tail(ns))

(***************************************************************************)
(* The heap of prim_mst: tuples <<w, u, v>>, least first in tuple order.   *)
(***************************************************************************)
\* The order of heap tuples pushed as (u, v, w).
TupleLessByNode(a, b) ==
    \/ a[2] < b[2]
    \/ a[2] = b[2] /\ a[3] < b[3]
    \/ a[2] = b[2] /\ a[3] = b[3] /\ a[1] < b[1]

TupleLess(a, b) ==
    \/ a[1] < b[1]
    \/ a[1] = b[1] /\ a[2] < b[2]
    \/ a[1] = b[1] /\ a[2] = b[2] /\ a[3] < b[3]

\* heap.pop(0) for heapq.heappop(heap).
FirstPos(h) == 1

\* The position in the list h of a least tuple.
MinPos(h) == CHOOSE j \in 1..Len(h) : \A o \in 1..Len(h) : ~TupleLess(h[o], h[j])
Without(h, j) == SubSeq(h, 1, j - 1) \o SubSeq(h, j + 1, Len(h))

RECURSIVE PushAll(_, _, _, _)
\* Lines 111-113: push (nw, v, nbr) for every neighbour not in vis.
PushAll(h, v, nbrs, vis) ==
    IF nbrs = <<>> THEN h
    ELSE PushAll(IF Head(nbrs)[1] \notin vis THEN Append(h, <<Head(nbrs)[2], v, Head(nbrs)[1]>>) ELSE h,
                 v, Tail(nbrs), vis)

AdjGet(d, k) == IF k \in DOMAIN d THEN d[k] ELSE <<>>

\* Lines 97-101 of prim_mst: every edge of start is pushed, visited or not.
PrimEnter(d, s) ==
    /\ visited' = visited \cup {s}
    /\ heap' = [j \in 1..Len(AdjGet(d, s)) |-> <<AdjGet(d, s)[j][2], s, AdjGet(d, s)[j][1]>>]
    /\ pmst' = <<>>
    /\ ptotal' = 0
    /\ calls' = Append(calls, s)
    /\ ppc' = "while"

\* prim_mst(adj, start=s): lines 84-101 (visited is None: a fresh set).
PrimMstCall ==
    /\ ppc = "idle" /\ kpc = "done" /\ impl = "prac6"
    /\ mode' = "single"
    /\ adj' = BuildAdjFromEdges(edges).lists
    /\ adj_keys' = BuildAdjFromEdges(edges).keys
    /\ \E s \in SetOfSeq(nodes) :
          IF BuildAdjFromEdges(edges).keys = <<>>
          THEN /\ ppc' = "done"
               /\ pmst' = <<>> /\ ptotal' = 0
               /\ UNCHANGED <<visited, heap, calls>>
          ELSE PrimEnter(BuildAdjFromEdges(edges).lists, s)
    /\ UNCHANGED <<all_mst, all_total, fi>>
    /\ UNCHANGED notPrim

\* prim_full(adj): lines 125-127, on the adjacency in which every node is a key.
PrimFullCall ==
    /\ ppc = "idle" /\ kpc = "done" /\ impl = "prac6"
    /\ mode' = "full"
    /\ adj' = WithKeys(BuildAdjFromEdges(edges), nodes).lists
    /\ adj_keys' = WithKeys(BuildAdjFromEdges(edges), nodes).keys
    /\ all_mst' = <<>> /\ all_total' = 0 /\ fi' = 1
    /\ ppc' = "for"
    /\ UNCHANGED <<visited, heap, pmst, ptotal, calls>>
    /\ UNCHANGED notPrim

\* prim_full lines 128-131: the next key; a visited one is skipped, any other
\* starts prim_mst with the shared visited set.
PrimFullFor ==
    /\ ppc = "for" /\ fi <= Len(adj_keys)
    /\ IF adj_keys[fi] \in visited
       THEN /\ fi' = fi + 1
            /\ UNCHANGED <<visited, heap, pmst, ptotal, calls, ppc>>
       ELSE /\ PrimEnter(adj, adj_keys[fi])
            /\ UNCHANGED fi
    /\ UNCHANGED <<adj, adj_keys, mode, all_mst, all_total>>
    /\ UNCHANGED notPrim

\* prim_mst lines 104-113: one iteration of the while loop.
PrimPop ==
    /\ ppc = "while" /\ heap # <<>>
    /\ LET top == heap[MinPos(heap)]
           rest == Without(heap, MinPos(heap))
           w == top[1]
           u == top[2]
           v == top[3]
       IN IF v \in visited
          THEN /\ heap' = rest
               /\ UNCHANGED <<visited, pmst, ptotal>>
          ELSE /\ visited' = visited \cup {v}
               /\ pmst' = Append(pmst, <<u, v, w>>)
               /\ ptotal' = ptotal + w
               /\ heap' = PushAll(rest, v, AdjGet(adj, v), visited \cup {v})
    /\ UNCHANGED <<adj, adj_keys, mode, all_mst, all_total, fi, calls, ppc>>
    /\ UNCHANGED notPrim

\* prim_mst line 115 and, under prim_full, lines 132-133.
PrimReturn ==
    /\ ppc = "while" /\ heap = <<>>
    /\ IF mode = "full"
       THEN /\ all_mst' = all_mst \o pmst
            /\ all_total' = all_total + ptotal
            /\ fi' = fi + 1
            /\ ppc' = "for"
       ELSE /\ ppc' = "done"
            /\ UNCHANGED <<all_mst, all_total, fi>>
    /\ UNCHANGED <<adj, adj_keys, mode, visited, heap, pmst, ptotal, calls>>
    /\ UNCHANGED notPrim

\* prim_full line 134.
PrimFullReturn ==
    /\ ppc = "for" /\ fi > Len(adj_keys)
    /\ ppc' = "done"
    /\ UNCHANGED <<adj, adj_keys, mode, visited, heap, pmst, ptotal, all_mst,
                   all_total, fi, calls>>
    /\ UNCHANGED notPrim

PrimIdle ==
    /\ adj = EmptyDict /\ adj_keys = <<>> /\ mode = "none"
    /\ visited = {} /\ heap = <<>>
    /\ pmst = <<>> /\ ptotal = 0 /\ all_mst = <<>> /\ all_total = 0
    /\ fi = 0 /\ calls = <<>> /\ ppc = "idle"


(***************************************************************************)
(* prac4.solve_n_queens.  backtrack is recursive: the model keeps its      *)
(* frames in stack, and one action is one step of the innermost frame.     *)
(***************************************************************************)
Top == stack[Len(stack)]
Pop == SubSeq(stack, 1, Len(stack) - 1)
SetTop(fr) == [stack EXCEPT ![Len(stack)] = fr]

\* Line 46.
Conflict(row, c) == c \in cols \/ (row + c) \in diag1 \/ (row - c) \in diag2

\* Lines 58-61: return right after the recursive call came back.
StopEarly == ~find_all \/ (max_solutions # 0 /\ Len(solutions) >= max_solutions)

QueensStart(size, fa, ms) ==
    /\ n = size /\ find_all = fa /\ max_solutions = ms
    /\ solutions = <<>>
    /\ cols = {} /\ diag1 = {} /\ diag2 = {}
    /\ board = [j \in 1..size |-> 0 - 1]
    /\ stack = <<[row |-> 0, c |-> 0, at |-> "test"]>>
    /\ qpc = "run"

\* Lines 41-43: all rows are filled.
QRecord ==
    /\ qpc = "run" /\ stack # <<>> /\ Top.row = n
    /\ solutions' = Append(solutions, board)
    /\ stack' = Pop
    /\ UNCHANGED <<n, find_all, max_solutions, cols, diag1, diag2, board, qpc>>
    /\ UNCHANGED notQueens

\* Lines 45-47: column c conflicts, the loop goes on.
QSkip ==
    /\ qpc = "run" /\ stack # <<>> /\ Top.row < n
    /\ Top.at = "test" /\ Top.c < n /\ Conflict(Top.row, Top.c)
    /\ stack' = SetTop([Top EXCEPT !.c = Top.c + 1])
    /\ UNCHANGED <<n, find_all, max_solutions, solutions, cols, diag1, diag2, board, qpc>>
    /\ UNCHANGED notQueens

\* Lines 49-55: place the queen and call backtrack(row + 1).
QPlace ==
    /\ qpc = "run" /\ stack # <<>> /\ Top.row < n
    /\ Top.at = "test" /\ Top.c < n /\ ~Conflict(Top.row, Top.c)
    /\ board' = [board EXCEPT ![Top.row + 1] = Top.c]
    /\ cols' = cols \cup {Top.c}
    /\ diag1' = diag1 \cup {Top.row + Top.c}
    /\ diag2' = diag2 \cup {Top.row - Top.c}
    /\ stack' = Append(SetTop([Top EXCEPT !.at = "ret"]),
                       [row |-> Top.row + 1, c |-> 0, at |-> "test"])
    /\ UNCHANGED <<n, find_all, max_solutions, solutions, qpc>>
    /\ UNCHANGED notQueens

\* Lines 57-67: the call came back; return, or remove the queen and go on.
QAfterCall ==
    /\ qpc = "run" /\ stack # <<>> /\ Top.at = "ret"
    /\ IF StopEarly
       THEN /\ stack' = Pop
            /\ UNCHANGED <<cols, diag1, diag2, board>>
       ELSE /\ cols' = cols \ {Top.c}
            /\ diag1' = diag1 \ {Top.row + Top.c}
            /\ diag2' = diag2 \ {Top.row - Top.c}
            /\ board' = [board EXCEPT ![Top.row + 1] = 0 - 1]
            /\ stack' = SetTop([Top EXCEPT !.c = Top.c + 1, !.at = "test"])
    /\ UNCHANGED <<n, find_all, max_solutions, solutions, qpc>>
    /\ UNCHANGED notQueens

\* The for loop of line 45 is over: backtrack returns.
QLoopEnd ==
    /\ qpc = "run" /\ stack # <<>> /\ Top.row < n
    /\ Top.at = "test" /\ Top.c = n
    /\ stack' = Pop
    /\ UNCHANGED <<n, find_all, max_solutions, solutions, cols, diag1, diag2, board, qpc>>
    /\ UNCHANGED notQueens

\* Lines 69-70: backtrack(0) returned; return solutions.
QReturn ==
    /\ qpc = "run" /\ stack = <<>>
    /\ qpc' = "done"
    /\ UNCHANGED <<n, find_all, max_solutions, solutions, cols, diag1, diag2, board, stack>>
    /\ UNCHANGED notQueens

QueensIdle ==
    /\ n = 0 /\ find_all = TRUE /\ max_solutions = 0 /\ solutions = <<>>
    /\ cols = {} /\ diag1 = {} /\ diag2 = {} /\ board = <<>> /\ stack = <<>>
    /\ qpc = "idle"

(***************************************************************************)
(* prac1.build_undirected_graph, lines 59-69 (prac2 lines 77-83 are the    *)
(* same), and graph.setdefault(node, []) of _demo, line 82.  A dict is     *)
(* its keys in insertion order and the list of each key.                   *)
(***************************************************************************)
SetDefault(d, k) ==
    IF k \in DOMAIN d.lists THEN d
    ELSE [keys |-> Append(d.keys, k), lists |-> DictSet(d.lists, k, <<>>)]

SetDefaultAppend(d, k, x) ==
    LET e == SetDefault(d, k)
    IN [keys |-> e.keys, lists |-> [e.lists EXCEPT ![k] = Append(@, x)]]

RECURSIVE BuildUndirectedGraph(_)
BuildUndirectedGraph(es) ==
    IF es = <<>> THEN [keys |-> <<>>, lists |-> EmptyDict]
    ELSE LET g == BuildUndirectedGraph(SubSeq(es, 1, Len(es) - 1))
             e == es[Len(es)]
         IN SetDefaultAppend(SetDefaultAppend(g, e[1], e[2]), e[2], e[1])

RECURSIVE SetDefaultEach(_, _)
\* graph.setdefault(v, []) for every v of S, least first.
SetDefaultEach(d, S) ==
    IF S = {} THEN d
    ELSE LET v == CHOOSE x \in S : \A y \in S : x <= y
         IN SetDefaultEach(SetDefault(d, v), S \ {v})

\* graph.get(v, [])
GraphGet(gr, v) == IF v \in DOMAIN gr.lists THEN gr.lists[v] ELSE <<>>

\* The for loop of dfs_full and bfs_full starts a search from every key that
\* is visited already as well.
AlwaysUnvisited(vis, v) == TRUE

\* "if node not in visited", prac1 line 52 and prac2 line 55.
Unvisited(vis, v) == v \notin vis

(***************************************************************************)
(* prac2.bfs_full._bfs_level, lines 61-68: the two nested for loops of one *)
(* call.  st holds visited, order and next_level.                          *)
(***************************************************************************)
RECURSIVE ScanNbrs(_, _, _)
ScanNbrs(st, nbrs, j) ==
    IF j > Len(nbrs) THEN st
    ELSE IF nbrs[j] \notin st.visited
    THEN ScanNbrs([visited |-> st.visited \cup {nbrs[j]},
                   order |-> Append(st.order, nbrs[j]),
                   next_level |-> Append(st.next_level, nbrs[j])], nbrs, j + 1)
    ELSE ScanNbrs(st, nbrs, j + 1)

RECURSIVE ScanFrontier(_, _, _, _)
ScanFrontier(st, gr, fr, i) ==
    IF i > Len(fr) THEN st
    ELSE ScanFrontier(ScanNbrs(st, GraphGet(gr, fr[i]), 1), gr, fr, i + 1)

(***************************************************************************)
(* dfs_full and bfs_full.  One action is one iteration of the for loop     *)
(* over the keys, one step of the for loop of a dfs_recursive frame, or    *)
(* one call of _bfs_level.                                                 *)
(***************************************************************************)
TraversalStart(gr, al) ==
    /\ tgraph = gr
    /\ talgo = al
    /\ tvisited = {}
    /\ torder = <<>>
    /\ ti = 1
    /\ tstack = <<>>
    /\ frontier = <<>>
    /\ tpc = "for"

\* prac1 lines 51-52, prac2 lines 54-55: the key is visited already.
FullSkip ==
    /\ tpc = "for"
    /\ ti <= Len(tgraph.keys)
    /\ ~Unvisited(tvisited, tgraph.keys[ti])
    /\ ti' = ti + 1
    /\ UNCHANGED <<tgraph, talgo, tvisited, torder, tstack, frontier, tpc>>
    /\ UNCHANGED notTraversal

\* prac1 line 54: dfs_full calls dfs_recursive, which runs lines 27-33.
DfsFullCall ==
    /\ tpc = "for" /\ talgo = "dfs"
    /\ ti <= Len(tgraph.keys)
    /\ Unvisited(tvisited, tgraph.keys[ti])
    /\ tvisited' = tvisited \cup {tgraph.keys[ti]}
    /\ torder' = Append(torder, tgraph.keys[ti])
    /\ tstack' = <<[start |-> tgraph.keys[ti], j |-> 1]>>
    /\ tpc' = "rec"
    /\ UNCHANGED <<tgraph, talgo, ti, frontier>>
    /\ UNCHANGED notTraversal

\* prac1 lines 35-36: the neighbour is visited already.
DfsSeen ==
    /\ tpc = "rec"
    /\ LET fr == tstack[Len(tstack)]
           nbrs == GraphGet(tgraph, fr.start)
       IN /\ fr.j <= Len(nbrs)
          /\ nbrs[fr.j] \in tvisited
          /\ tstack' = [tstack EXCEPT ![Len(tstack)].j = fr.j + 1]
    /\ UNCHANGED <<tgraph, talgo, tvisited, torder, ti, frontier, tpc>>
    /\ UNCHANGED notTraversal

\* prac1 lines 35-37, then 27-33 of the call: the neighbour is searched.
DfsRecurse ==
    /\ tpc = "rec"
    /\ LET fr == tstack[Len(tstack)]
           nbrs == GraphGet(tgraph, fr.start)
       IN /\ fr.j <= Len(nbrs)
          /\ nbrs[fr.j] \notin tvisited
          /\ tvisited' = tvisited \cup {nbrs[fr.j]}
          /\ torder' = Append(torder, nbrs[fr.j])
          /\ tstack' = Append([tstack EXCEPT ![Len(tstack)].j = fr.j + 1],
                              [start |-> nbrs[fr.j], j |-> 1])
    /\ UNCHANGED <<tgraph, talgo, ti, frontier, tpc>>
    /\ UNCHANGED notTraversal

\* prac1 line 39: the for loop of the innermost dfs_recursive is over.
DfsReturn ==
    /\ tpc = "rec"
    /\ LET fr == tstack[Len(tstack)]
       IN fr.j > Len(GraphGet(tgraph, fr.start))
    /\ tstack' = SubSeq(tstack, 1, Len(tstack) - 1)
    /\ tpc' = IF Len(tstack) = 1 THEN "for" ELSE "rec"
    /\ ti' = IF Len(tstack) = 1 THEN ti + 1 ELSE ti
    /\ UNCHANGED <<tgraph, talgo, tvisited, torder, frontier>>
    /\ UNCHANGED notTraversal

\* prac2 lines 58-59 and 72: bfs_full starts a component.
BfsFullCall ==
    /\ tpc = "for" /\ talgo = "bfs"
    /\ ti <= Len(tgraph.keys)
    /\ Unvisited(tvisited, tgraph.keys[ti])
    /\ tvisited' = tvisited \cup {tgraph.keys[ti]}
    /\ torder' = Append(torder, tgraph.keys[ti])
    /\ frontier' = <<tgraph.keys[ti]>>
    /\ tpc' = "level"
    /\ UNCHANGED <<tgraph, talgo, ti, tstack>>
    /\ UNCHANGED notTraversal

\* prac2 lines 62-70: one call of _bfs_level that finds a next level.
BfsLevelRecurse ==
    /\ tpc = "level"
    /\ LET st == ScanFrontier([visited |-> tvisited, order |-> torder, next_level |-> <<>>],
                              tgraph, frontier, 1)
       IN /\ st.next_level # <<>>
          /\ tvisited' = st.visited
          /\ torder' = st.order
          /\ frontier' = st.next_level
    /\ UNCHANGED <<tgraph, talgo, ti, tstack, tpc>>
    /\ UNCHANGED notTraversal

\* prac2 lines 62-69: the call of _bfs_level that finds no next level; every
\* enclosing call returns with it.
BfsLevelReturn ==
    /\ tpc = "level"
    /\ LET st == ScanFrontier([visited |-> tvisited, order |-> torder, next_level |-> <<>>],
                              tgraph, frontier, 1)
       IN /\ st.next_level = <<>>
          /\ tvisited' = st.visited
          /\ torder' = st.order
    /\ frontier' = <<>>
    /\ ti' = ti + 1
    /\ tpc' = "for"
    /\ UNCHANGED <<tgraph, talgo, tstack>>
    /\ UNCHANGED notTraversal

\* prac1 line 56, prac2 line 74: return order.
FullReturn ==
    /\ tpc = "for"
    /\ ti > Len(tgraph.keys)
    /\ tpc' = "done"
    /\ UNCHANGED <<tgraph, talgo, tvisited, torder, ti, tstack, frontier>>
    /\ UNCHANGED notTraversal

TraversalIdle ==
    /\ tgraph = [keys |-> <<>>, lists |-> EmptyDict]
    /\ talgo = "none" /\ tvisited = {} /\ torder = <<>> /\ ti = 0
    /\ tstack = <<>> /\ frontier = <<>> /\ tpc = "idle"

(***************************************************************************)
(* The disjoint sets called directly: any sequence of union calls, and of  *)
(* find calls on prac8's UnionFind (prac6's find is local to kruskal_mst   *)
(* and runs only inside union).                                            *)
(***************************************************************************)
UnionFindStart(ns, im) ==
    /\ unodes = ns
    /\ uimpl = im
    /\ uparent = [x \in SetOfSeq(ns) |-> x]
    /\ urank = [x \in SetOfSeq(ns) |-> 0]
    /\ ulast = [op |-> "none"]
    /\ upart = [x \in SetOfSeq(ns) |-> x]

FindRecord(im, p, x) ==
    [x |-> x, before |-> p, after |-> Find(im, p, x).parent, root |-> Find(im, p, x).root]

\* union(x, y): find(x), find(y), then the link.
UnionCall(x, y) ==
    LET r == Union(uimpl, uparent, urank, x, y)
        lo == IF upart[x] < upart[y] THEN upart[x] ELSE upart[y]
    IN /\ uparent' = r.parent
       /\ urank' = r.rank
       /\ ulast' = [op |-> "union", x |-> x, y |-> y,
                    parent |-> uparent, rank |-> urank, result |-> r.merged,
                    finds |-> <<FindRecord(uimpl, uparent, x),
                                FindRecord(uimpl, Find(uimpl, uparent, x).parent, y)>>]
       /\ upart' = [v \in DOMAIN upart |->
                       IF upart[v] \in {upart[x], upart[y]} THEN lo ELSE upart[v]]
       /\ UNCHANGED <<unodes, uimpl>>
       /\ UNCHANGED notUnionFind

\* uf.find(x)
FindCall(x) ==
    /\ uimpl = "prac8"
    /\ uparent' = Find8(uparent, x).parent
    /\ ulast' = [op |-> "find", x |-> x, y |-> x,
                 parent |-> uparent, rank |-> urank, result |-> Find8(uparent, x).root,
                 finds |-> <<FindRecord("prac8", uparent, x)>>]
    /\ UNCHANGED <<unodes, uimpl, urank, upart>>
    /\ UNCHANGED notUnionFind

UnionFindIdle ==
    /\ unodes = <<>> /\ uimpl = "none" /\ uparent = EmptyDict /\ urank = EmptyDict
    /\ ulast = [op |-> "none"] /\ upart = EmptyDict

(***************************************************************************)
(* The inputs of the spanning-tree programs: every undirected graph on the *)
(* nodes 1..n, n up to 4, each edge listed once as <<u, v, w>> with u < v, *)
(* in the order of the pairs; and the scenario graph on A..F, written      *)
(* 1..6.                                                                   *)
(***************************************************************************)
NodeCounts == {1, 2, 3, 4}
EdgeWeights == 0..MaxEdgeWeight
PairsOf(cnt) == {<<u, v>> \in (1..cnt) \X (1..cnt) : u < v}

RECURSIVE EdgeListFrom(_, _, _, _)
EdgeListFrom(g, cnt, u, v) ==
    IF u >= cnt THEN <<>>
    ELSE IF v > cnt THEN EdgeListFrom(g, cnt, u + 1, u + 2)
    ELSE (IF g[<<u, v>>] # Absent THEN <<(<<u, v, g[<<u, v>>]>>)>> ELSE <<>>)
         \o EdgeListFrom(g, cnt, u, v + 1)

EdgeList(g, cnt) == EdgeListFrom(g, cnt, 1, 2)
NodeList(cnt) == [j \in 1..cnt |-> j]

ScenarioNodes == NodeList(6)
ScenarioEdges ==
    << <<1, 2, 4>>, <<1, 3, 2>>, <<2, 3, 1>>, <<2, 4, 5>>,
       <<3, 4, 8>>, <<3, 5, 10>>, <<4, 5, 2>>, <<5, 6, 3>> >>

Impls == {"prac6", "prac8"}

AStarIdle ==
    /\ wgt = [pr \in Pairs |-> Absent]
    /\ kind = "coord"
    /\ graph = EmptyDict
    /\ start = NodeVal("coord", 1) /\ goal = NodeVal("coord", 1)
    /\ hval = [u \in Nodes |-> 0]
    /\ open_set = {} /\ came_from = EmptyDict /\ g_score = EmptyDict
    /\ f_score = EmptyDict /\ closed = {} /\ push_count = 0
    /\ expanded = <<>> /\ apc = "idle" /\ path = <<>>

KruskalIdle ==
    /\ first = <<>>
    /\ edges = <<>> /\ nodes = <<>> /\ impl = "none" /\ sorted_edges = <<>>
    /\ parent = EmptyDict /\ rank = EmptyDict /\ mst = <<>> /\ total = 0
    /\ ki = 0 /\ kpc = "idle"

MstInit ==
    /\ \E im \in Impls :
          \/ \E cnt \in NodeCounts :
                \E g \in [PairsOf(cnt) -> EdgeWeights \cup {Absent}] :
                    KruskalStart(EdgeList(g, cnt), NodeList(cnt), im)
          \/ KruskalStart(ScenarioEdges, ScenarioNodes, im)
    /\ first = <<>>
    /\ PrimIdle
    /\ AStarIdle
    /\ QueensIdle
    /\ TraversalIdle
    /\ UnionFindIdle

MstNext ==
    \/ Kruskal6Edge \/ Kruskal8Edge \/ KruskalReturn
    \/ PrimMstCall \/ PrimFullCall \/ PrimFullFor \/ PrimPop \/ PrimReturn \/ PrimFullReturn

SpecMst == MstInit /\ [][MstNext]_vars

AStarAnyInit == AStarStartAny /\ KruskalIdle /\ PrimIdle /\ QueensIdle /\ TraversalIdle /\ UnionFindIdle

AStarNext == AStarGoal \/ AStarExpand \/ AStarNoPath

SpecAStarAny == AStarAnyInit /\ [][AStarNext]_vars

AStarInit == AStarStart /\ KruskalIdle /\ PrimIdle /\ QueensIdle /\ TraversalIdle /\ UnionFindIdle

SpecAStar == AStarInit /\ [][AStarGoal \/ AStarExpand \/ AStarNoPath]_vars

QueensInit ==
    /\ \E size \in 1..MaxN, fa \in BOOLEAN, ms \in 0..MaxSolutionsArg :
          QueensStart(size, fa, ms)
    /\ AStarIdle /\ KruskalIdle /\ PrimIdle /\ TraversalIdle /\ UnionFindIdle

SpecQueens ==
    QueensInit /\ [][QRecord \/ QSkip \/ QPlace \/ QAfterCall \/ QLoopEnd \/ QReturn]_vars


(***************************************************************************)
(* The inputs of dfs_full and bfs_full: the graph that                     *)
(* build_undirected_graph makes of a list of at most MaxTEdges edges on    *)
(* TNodes (loops and repeated edges included), with any set of further     *)
(* nodes added by setdefault as _demo adds its isolated node.              *)
(***************************************************************************)
TNodes == {1, 2, 3, 4}
TAlgos == {"dfs", "bfs"}

RECURSIVE SeqsUpTo(_, _)
SeqsUpTo(S, len) ==
    IF len = 0 THEN {<<>>}
    ELSE LET shorter == SeqsUpTo(S, len - 1)
         IN shorter \cup {Append(q, x) : q \in shorter, x \in S}

TraversalInit ==
    /\ \E es \in SeqsUpTo(TNodes \X TNodes, MaxTEdges), iso \in SUBSET TNodes, al \in TAlgos :
          TraversalStart(SetDefaultEach(BuildUndirectedGraph(es), iso), al)
    /\ AStarIdle /\ KruskalIdle /\ PrimIdle /\ QueensIdle /\ UnionFindIdle

TraversalNext ==
    \/ FullSkip \/ DfsFullCall \/ DfsSeen \/ DfsRecurse \/ DfsReturn
    \/ BfsFullCall \/ BfsLevelRecurse \/ BfsLevelReturn \/ FullReturn

SpecTraversal == TraversalInit /\ [][TraversalNext]_vars

Keys == SetOfSeq(tgraph.keys)
NeighboursAreKeys == \A k \in Keys : SetOfSeq(tgraph.lists[k]) \subseteq Keys
IsUndirected == \A k \in Keys : \A x \in SetOfSeq(tgraph.lists[k]) :
                    x \in Keys /\ k \in SetOfSeq(tgraph.lists[x])

\* C11: on an undirected graph whose neighbours are all keys, the order that
\* dfs_full or bfs_full returns holds every key exactly once: its set is the
\* set of keys and its length the number of keys.
C11_FullOrderCoversKeysOnce ==
    (tpc = "done" /\ NeighboursAreKeys /\ IsUndirected) =>
        /\ SetOfSeq(torder) = Keys
        /\ Len(torder) = Len(tgraph.keys)

\* C11 witness: a full search has returned on a disconnected graph that has an
\* isolated node and a component of at least three nodes.
C11_Witness ==
    /\ tpc = "done" /\ NeighboursAreKeys /\ IsUndirected
    /\ \E k \in Keys : tgraph.lists[k] = <<>>
    /\ \E k \in Keys : Cardinality(SetOfSeq(tgraph.lists[k]) \ {k}) >= 2

(***************************************************************************)
(* The inputs of the disjoint sets: four registered nodes with union on    *)
(* any two of them, and eight registered nodes, the least number on which  *)
(* union by rank builds a path of three parent pointers, with union on the *)
(* pairs of a knockout bracket: x and x + d for d = 1, 2, 4 and x - 1 a    *)
(* multiple of 2d, the first round (d = 1) in either order.                *)
(***************************************************************************)
UFNodeCounts == {4, 8}
UnionArgs(cnt) ==
    IF cnt <= 4 THEN (1..cnt) \X (1..cnt)
    ELSE {a \in (1..cnt) \X (1..cnt) :
             \E d \in {1, 2, 4} :
                 \/ a[2] = a[1] + d /\ (a[1] - 1) % (2 * d) = 0
                 \/ d = 1 /\ a[1] = a[2] + d /\ (a[2] - 1) % (2 * d) = 0}

UnionFindInit ==
    /\ \E cnt \in UFNodeCounts, im \in Impls : UnionFindStart(NodeList(cnt), im)
    /\ AStarIdle /\ KruskalIdle /\ PrimIdle /\ QueensIdle /\ TraversalIdle

UFUnion == \E a \in UnionArgs(Len(unodes)) : UnionCall(a[1], a[2])
UFFind == \E x \in SetOfSeq(unodes) : FindCall(x)

SpecUnionFind == UnionFindInit /\ [][UFUnion \/ UFFind]_vars

(***************************************************************************)
(* What the claims about the disjoint sets speak of.                       *)
(***************************************************************************)
RECURSIVE RootFrom(_, _, _)
\* The node reached from x by following parent pointers until a node that is
\* its own parent; 0 if fuel pointers do not reach one.
RootFrom(p, x, fuel) ==
    IF p[x] = x THEN x
    ELSE IF fuel = 0 THEN 0
    ELSE RootFrom(p, p[x], fuel - 1)

Representative(p, x) == RootFrom(p, x, Cardinality(DOMAIN p))

\* C12: union(x, y) returns true exactly when x and y were in different sets;
\* it then merges the two sets, putting the root of lower rank under the root
\* of higher rank, and adds one to the rank of the surviving root only when
\* the two ranks were equal; afterwards find(x) = find(y).
C12_UnionByRank ==
    ulast.op = "union" =>
        LET rx == Representative(ulast.parent, ulast.x)
            ry == Representative(ulast.parent, ulast.y)
            before(v) == Representative(ulast.parent, v)
            after(v) == Representative(uparent, v)
        IN /\ ulast.result = (rx # ry)
           /\ ~ulast.result => urank = ulast.rank
           /\ ulast.result =>
                /\ after(ulast.x) = after(ulast.y)
                /\ \A u, v \in DOMAIN uparent :
                      (after(u) = after(v)) <=>
                          (before(u) = before(v) \/ {before(u), before(v)} = {rx, ry})
                /\ ulast.rank[rx] < ulast.rank[ry] =>
                      uparent[rx] = ry /\ uparent[ry] = ry /\ urank = ulast.rank
                /\ ulast.rank[rx] > ulast.rank[ry] =>
                      uparent[ry] = rx /\ uparent[rx] = rx /\ urank = ulast.rank
                /\ ulast.rank[rx] = ulast.rank[ry] =>
                      \E top \in {rx, ry} : \E sub \in {rx, ry} \ {top} :
                          /\ uparent[sub] = top /\ uparent[top] = top
                          /\ urank = [ulast.rank EXCEPT ![top] = @ + 1]

\* C12 witness: unions have merged two sets whose roots had different ranks.
C12_Witness ==
    /\ ulast.op = "union" /\ ulast.result
    /\ ulast.rank[Representative(ulast.parent, ulast.x)]
          < ulast.rank[Representative(ulast.parent, ulast.y)]

RECURSIVE PathFrom(_, _, _)
\* The nodes on the parent-pointer path from x to its representative, x first.
PathFrom(p, x, fuel) ==
    IF p[x] = x \/ fuel = 0 THEN <<x>>
    ELSE <<x>> \o PathFrom(p, p[x], fuel - 1)

PathOf(p, x) == PathFrom(p, x, Cardinality(DOMAIN p))

Finds == IF ulast.op = "none" THEN {} ELSE {<<ulast.finds[j], uimpl>> : j \in 1..Len(ulast.finds)}

\* C13 (as claimed): after find(x) returns r, every node that was on the path
\* from x to r has r as its parent, in prac6 and in prac8.
C13_FindFlattensPath ==
    \A fi_ \in Finds :
        LET f == fi_[1]
        IN /\ f.root = Representative(f.before, f.x)
           /\ \A v \in SetOfSeq(PathOf(f.before, f.x)) : f.after[v] = f.root

\* C13 (amended): find(x) returns the representative r of x and changes no
\* parent off the path from x to r.  prac8's find leaves every node of the
\* path with r as its parent.  prac6's find halves the path: the nodes at
\* even distance from x (x itself first) get their grandparent as parent, the
\* nodes at odd distance keep theirs, so the path is flat afterwards only if
\* it had at most two pointers.
C13_FindCompressesOrHalves ==
    \A fi_ \in Finds :
        LET f == fi_[1]
            pth == PathOf(f.before, f.x)
        IN /\ f.root = Representative(f.before, f.x)
           /\ \A v \in DOMAIN f.before \ SetOfSeq(pth) : f.after[v] = f.before[v]
           /\ fi_[2] = "prac8" => \A v \in SetOfSeq(pth) : f.after[v] = f.root
           /\ fi_[2] = "prac6" =>
                 /\ \A j \in 1..Len(pth) :
                       f.after[pth[j]] = IF j % 2 = 1 THEN f.before[f.before[pth[j]]]
                                         ELSE f.before[pth[j]]
                 /\ Len(pth) <= 3 => \A v \in SetOfSeq(pth) : f.after[v] = f.root

\* C13 witness: find has run on a node three parent pointers away from its
\* representative.
C13_Witness ==
    \E fi_ \in Finds : Len(PathOf(fi_[1].before, fi_[1].x)) = 4

SameSetUnion ==
    /\ ulast.op = "union"
    /\ Representative(ulast.parent, ulast.x) = Representative(ulast.parent, ulast.y)

\* C14 (as claimed): union(x, y) on two nodes of one set returns false and
\* leaves the parent table and the rank table exactly as they were.
C14_SameSetUnionChangesNothing ==
    SameSetUnion =>
        /\ ulast.result = FALSE
        /\ uparent = ulast.parent
        /\ urank = ulast.rank

\* C14 (amended): union(x, y) on two nodes of one set returns false and
\* leaves the rank table and every node's representative as they were; the
\* parent table changes only by the path compression of find(x) and find(y),
\* on nodes of the paths from x and from y to the representative.
C14_SameSetUnionKeepsSets ==
    SameSetUnion =>
        /\ ulast.result = FALSE
        /\ urank = ulast.rank
        /\ \A v \in DOMAIN uparent :
              /\ Representative(uparent, v) = Representative(ulast.parent, v)
              /\ uparent[v] # ulast.parent[v] =>
                    v \in SetOfSeq(PathOf(ulast.parent, ulast.x))
                            \cup SetOfSeq(PathOf(ulast.parent, ulast.y))

\* C14 witness: union has run on two nodes of one set, one of them two
\* parent pointers away from the representative.
C14_Witness ==
    /\ SameSetUnion
    /\ ulast.x # ulast.y
    /\ Len(PathOf(ulast.parent, ulast.x)) >= 3

\* C17: after any sequence of find and union calls, the parent pointers lead
\* from every node to a node that is its own parent, every node that is not a
\* root has a rank strictly below its parent's, and any two nodes merged by
\* union calls, directly or through others, have the same representative.
C17_ParentForestInvariant ==
    /\ \A v \in DOMAIN uparent :
          /\ uparent[v] \in DOMAIN uparent
          /\ Representative(uparent, v) # 0
          /\ uparent[v] # v => urank[v] < urank[uparent[v]]
    /\ \A u, v \in DOMAIN uparent :
          upart[u] = upart[v] => Representative(uparent, u) = Representative(uparent, v)

\* C17 witness: calls have built a tree in which a root of rank 2 has become
\* the child of another root and a later call has run on it.
C17_Witness ==
    /\ ulast.op # "none"
    /\ \E v \in DOMAIN ulast.parent :
          ulast.parent[v] # v /\ ulast.rank[v] = 2 /\ upart[v] = upart[ulast.x]

(***************************************************************************)
(* What the claims about the spanning-tree programs speak of.  es is a     *)
(* sequence of edges <<u, v, w>>, ns a set of nodes.                       *)
(***************************************************************************)
RECURSIVE ReachFrom(_, _)
\* The nodes joined to a node of S by edges of es.
ReachFrom(S, es) ==
    LET more == {e[2] : e \in {x \in SetOfSeq(es) : x[1] \in S}}
                \cup {e[1] : e \in {x \in SetOfSeq(es) : x[2] \in S}}
    IN IF more \subseteq S THEN S ELSE ReachFrom(S \cup more, es)

RECURSIVE NumComponents(_, _)
NumComponents(ns, es) ==
    IF ns = {} THEN 0
    ELSE LET x == CHOOSE y \in ns : TRUE
         IN 1 + NumComponents(ns \ ReachFrom({x}, es), es)

IsConnected(ns, es) == NumComponents(ns, es) = 1

\* es has no cycle: every edge of a forest lowers the number of components by one.
IsAcyclic(ns, es) == Len(es) = Cardinality(ns) - NumComponents(ns, es)

\* e, read in either direction, is an edge of es.
IsEdgeOf(e, es) ==
    \E j \in 1..Len(es) :
        /\ es[j][3] = e[3]
        /\ <<es[j][1], es[j][2]>> \in {<<e[1], e[2]>>, <<e[2], e[1]>>}

\* The number of edges of a spanning forest of the graph (ns, all).
ForestSize(ns, all) == Cardinality(ns) - NumComponents(ns, all)

\* es is a spanning forest of the graph (ns, all): edges of the graph, as many
\* as a forest has, that leave as many components as the graph has.
IsSpanningForest(ns, es, all) ==
    /\ \A j \in 1..Len(es) : IsEdgeOf(es[j], all)
    /\ Len(es) = ForestSize(ns, all)
    /\ NumComponents(ns, es) = NumComponents(ns, all)

RECURSIVE WeightSum(_)
WeightSum(es) == IF es = <<>> THEN 0 ELSE es[1][3] + WeightSum(Tail(es))

RECURSIVE Pick(_, _, _)
\* The edges of es at the positions of idx that are at or after j, in order.
Pick(es, idx, j) ==
    IF j > Len(es) THEN <<>>
    ELSE (IF j \in idx THEN <<es[j]>> ELSE <<>>) \o Pick(es, idx, j + 1)

\* The weights of the spanning forests of (ns, es).
ForestWeights(ns, es) ==
    LET k == ForestSize(ns, es)
        c == NumComponents(ns, es)
    IN {WeightSum(Pick(es, idx, 1)) :
           idx \in {i \in SUBSET (1..Len(es)) :
                       Cardinality(i) = k /\ NumComponents(ns, Pick(es, i, 1)) = c}}

MinForestWeight(ns, es) ==
    LET fw == ForestWeights(ns, es)
    IN CHOOSE m \in fw : \A o \in fw : m <= o

\* The edges of es with both ends in C.
Inside(es, C) == Pick(es, {j \in 1..Len(es) : es[j][1] \in C /\ es[j][2] \in C}, 1)

NodeSet == SetOfSeq(nodes)

\* kruskal_mst has just returned mst, total.
KruskalReturned == kpc = "done" /\ ppc = "idle"

\* C4: on a connected graph kruskal_mst and prim_mst(build_adj_from_edges(edges),
\* start), for any start, return the same total, and each len(nodes) - 1 edges.
C4_KruskalPrimAgree ==
    (ppc = "done" /\ mode = "single" /\ IsConnected(NodeSet, edges)) =>
        /\ total = ptotal
        /\ Len(mst) = Len(nodes) - 1
        /\ Len(pmst) = Len(nodes) - 1

\* C4 witness: both have run on a connected graph with a cycle, from a start
\* other than the first node.
C4_Witness ==
    /\ ppc = "done" /\ mode = "single" /\ IsConnected(NodeSet, edges)
    /\ Len(nodes) = 4 /\ Len(edges) >= 4
    /\ calls # <<>> /\ calls[1] # 1
    /\ total = ptotal /\ total > 0

\* C5: the edges kruskal_mst returns have minimum total weight among the
\* spanning forests of the graph, and the returned total is their sum.
C5_KruskalMinimum ==
    KruskalReturned =>
        /\ total = WeightSum(mst)
        /\ IsSpanningForest(NodeSet, mst, edges)
        /\ WeightSum(mst) = MinForestWeight(NodeSet, edges)

\* C5 witness: kruskal_mst has returned on a disconnected graph with a cycle
\* whose cheapest forest is cheaper than another.
C5_Witness ==
    /\ KruskalReturned /\ ~IsConnected(NodeSet, edges)
    /\ ~IsAcyclic(NodeSet, edges)
    /\ Cardinality(ForestWeights(NodeSet, edges)) > 1
    /\ total = MinForestWeight(NodeSet, edges)

\* C6: the edges kruskal_mst returns are acyclic and leave the number of
\* connected components that of the input graph; on a disconnected graph the
\* loop takes every edge and fewer than len(nodes) - 1 edges are returned.
C6_KruskalForest ==
    KruskalReturned =>
        /\ IsAcyclic(NodeSet, mst)
        /\ NumComponents(NodeSet, mst) = NumComponents(NodeSet, edges)
        /\ ~IsConnected(NodeSet, edges) =>
              /\ ki = Len(sorted_edges) + 1
              /\ Len(mst) < Len(nodes) - 1

\* C6 witness: kruskal_mst has returned a forest of a disconnected graph after
\* refusing an edge that closes a cycle.
C6_Witness ==
    /\ KruskalReturned /\ ~IsConnected(NodeSet, edges)
    /\ ~IsAcyclic(NodeSet, edges)
    /\ mst # <<>> /\ Len(mst) < Len(edges)

ScenarioMst == {<<2, 3, 1>>, <<1, 3, 2>>, <<4, 5, 2>>, <<2, 4, 5>>, <<5, 6, 3>>}

OnScenario == edges = ScenarioEdges /\ nodes = ScenarioNodes

\* C7 (as claimed): on the scenario graph kruskal_mst returns total weight 11
\* and the edges (B,C,1), (A,C,2), (D,E,2), (B,D,5), (E,F,3).
C7_ScenarioTotal11 ==
    (KruskalReturned /\ OnScenario) =>
        /\ total = 11
        /\ Len(mst) = 5 /\ SetOfSeq(mst) = ScenarioMst

\* C7 (amended): on the scenario graph kruskal_mst returns total weight 13
\* and the edges (B,C,1), (A,C,2), (D,E,2), (B,D,5), (E,F,3).
C7_ScenarioTotal13 ==
    (KruskalReturned /\ OnScenario) =>
        /\ total = 13
        /\ Len(mst) = 5 /\ SetOfSeq(mst) = ScenarioMst

\* C7 witness: kruskal_mst has returned on the scenario graph.
C7_Witness == KruskalReturned /\ OnScenario /\ Len(mst) = 5

\* The component of node x in the input graph.
Component(x) == ReachFrom({x}, edges)

\* C8: prim_full returns a spanning forest; its edges inside each component
\* are a minimum spanning tree of the component; every node is visited by
\* exactly one prim_mst call; the total is the sum of the components' minimum
\* spanning tree weights.
C8_PrimFullForest ==
    (ppc = "done" /\ mode = "full") =>
        /\ IsSpanningForest(NodeSet, all_mst, edges)
        /\ \A x \in NodeSet :
              WeightSum(Inside(all_mst, Component(x)))
                  = MinForestWeight(Component(x), Inside(edges, Component(x)))
        /\ visited = NodeSet
        /\ Len(calls) = NumComponents(NodeSet, edges)
        /\ \A i, j \in 1..Len(calls) : i # j => Component(calls[i]) # Component(calls[j])
        /\ Len(calls) + Len(all_mst) = Cardinality(NodeSet)
        /\ all_total = WeightSum(all_mst)
        /\ all_total = MinForestWeight(NodeSet, edges)

\* C8 witness: prim_full has returned on a graph of several components, one of
\* them with a cycle and spanning trees of different weights.
C8_Witness ==
    /\ ppc = "done" /\ mode = "full"
    /\ Len(calls) >= 2
    /\ ~IsAcyclic(NodeSet, edges)
    /\ Cardinality(ForestWeights(NodeSet, edges)) > 1
    /\ all_total = MinForestWeight(NodeSet, edges)

\* The place of edge e in the input list (the drawn lists name no edge twice).
InputPos(e) == CHOOSE j \in 1..Len(edges) : edges[j] = e

\* a comes before b in the stable order by weight.
StablyBefore(a, b) == a[3] < b[3] \/ (a[3] = b[3] /\ InputPos(a) < InputPos(b))

\* C16: kruskal_mst takes the edges in non-decreasing weight order, edges of
\* equal weight in their input order; the edges it returns are the edges of
\* that order that join two components of the edges before them, in that
\* order, so they are sorted by non-decreasing weight.
C16_KruskalStableOrder ==
    KruskalReturned =>
        /\ Len(sorted_edges) = Len(edges)
        /\ SetOfSeq(sorted_edges) = SetOfSeq(edges)
        /\ \A i, j \in 1..Len(sorted_edges) :
              i < j => StablyBefore(sorted_edges[i], sorted_edges[j])
        /\ \A i, j \in 1..Len(mst) :
              i < j => mst[i][3] <= mst[j][3] /\ StablyBefore(mst[i], mst[j])
        /\ \A k \in 1..Len(sorted_edges) :
              (sorted_edges[k] \in SetOfSeq(mst)) <=>
                  sorted_edges[k][2] \notin
                      ReachFrom({sorted_edges[k][1]}, SubSeq(sorted_edges, 1, k - 1))

\* C16 witness: kruskal_mst has returned two edges of one weight, from an
\* input list that was not in weight order.
C16_Witness ==
    /\ KruskalReturned
    /\ sorted_edges # edges
    /\ \E i, j \in 1..Len(mst) : i < j /\ mst[i][3] = mst[j][3]

(***************************************************************************)
(* The inputs of the caller that runs both kruskal_mst: the graphs of the  *)
(* spanning-tree programs, and every list of at most MaxListEdges edges on *)
(* three nodes, loops, repeated edges and both directions included, with   *)
(* the three nodes listed, or listed with a node that has no edge, or with *)
(* a node listed twice.                                                    *)
(***************************************************************************)
ListNodes == {1, 2, 3}
NodeLists == {<<1, 2, 3>>, <<1, 2, 3, 4>>, <<1, 2, 2, 3>>}

BothInit ==
    /\ \/ \E cnt \in NodeCounts :
             \E g \in [PairsOf(cnt) -> EdgeWeights \cup {Absent}] :
                 KruskalStart(EdgeList(g, cnt), NodeList(cnt), "prac6")
       \/ KruskalStart(ScenarioEdges, ScenarioNodes, "prac6")
       \/ \E es \in SeqsUpTo(ListNodes \X ListNodes \X EdgeWeights, MaxListEdges),
             ns \in NodeLists :
                 KruskalStart(es, ns, "prac6")
    /\ first = <<>>
    /\ PrimIdle /\ AStarIdle /\ QueensIdle /\ TraversalIdle /\ UnionFindIdle

BothNext == Kruskal6Edge \/ KruskalReturn \/ KruskalAgain \/ Kruskal8Edge

SpecBoth == BothInit /\ [][BothNext]_vars

\* C19: on one edge list and node list, every endpoint listed, prac8's
\* kruskal_mst returns the edges that prac6's kruskal_mst returned, in the
\* same order, and the same total.
C19_KruskalsAgree ==
    (kpc = "done" /\ impl = "prac8" /\ first # <<>>) =>
        /\ mst = first[1].mst
        /\ total = first[1].total

\* C19 witness: both have returned a spanning tree of three or more nodes
\* before the last edge of the sorted list, prac6 by its break after the
\* append and prac8 by its break before the union.
C19_Witness ==
    /\ kpc = "done" /\ impl = "prac8" /\ first # <<>>
    /\ Len(mst) = Len(nodes) - 1 /\ Len(mst) >= 2
    /\ ki <= Len(sorted_edges)
    /\ mst = first[1].mst


(***************************************************************************)
(* What the claim about solve_n_queens speaks of.                          *)
(***************************************************************************)
\* b places a queen in each of the n rows, no two in one column or diagonal.
IsSolution(b) ==
    /\ Len(b) = n
    /\ \A r \in 1..n : b[r] \in 0..(n - 1)
    /\ \A r1, r2 \in 1..n :
          r1 < r2 => /\ b[r1] # b[r2]
                     /\ b[r1] - b[r2] # r2 - r1
                     /\ b[r2] - b[r1] # r2 - r1

HasSolution == \E b \in [1..n -> 0..(n - 1)] : IsSolution(b)

\* C10 (as claimed): with find_all = False, on a board that has a solution,
\* solve_n_queens returns exactly one solution, and it is a valid one.
C10_FirstSolutionReturned ==
    (qpc = "done" /\ ~find_all /\ HasSolution) =>
        /\ Len(solutions) = 1
        /\ IsSolution(solutions[1])

\* What holds of find_all = False: at most one board is returned, a valid one.
AtMostOneValidSolution ==
    (qpc = "done" /\ ~find_all) =>
        /\ Len(solutions) <= 1
        /\ \A j \in 1..Len(solutions) : IsSolution(solutions[j])

=============================================================================
